---- MODULE Spec2Model ----
(***************************************************************************)
(* A model of the liboqs C++ wrapper (include/oqs_cpp.hpp, and its older   *)
(* copy include/oqs_cpp.h): the KEMs / Sigs registries with their lazily   *)
(* filled static lists, and the KeyEncapsulation / Signature handles that  *)
(* own a native context through a std::shared_ptr and a secret key in a    *)
(* std::vector.                                                            *)
(*                                                                         *)
(* Three specifications:                                                   *)
(*   SpecMT  several threads run the registry accessors, one access to the *)
(*           shared statics per step;                                      *)
(*   Spec    one thread runs whole operations on a few handles;            *)
(*   SpecReg one thread calls the static members of KEMs and of Sigs.      *)
(***************************************************************************)
EXTENDS Integers, Sequences, FiniteSets, TLC

VARIABLES
    header,          \* the header the program is built with
    family,          \* the classes the program works with: KEMs and
                     \* KeyEncapsulation, or Sigs and Signature
    supported,       \* static std::vector supported_KEMs / supported_sigs
    sup_invoked,     \* static bool fnc_already_invoked of get_supported_*
    enabled,         \* static std::vector enabled_KEMs / enabled_sigs
    en_invoked,      \* static bool fnc_already_invoked of get_enabled_*
    pc,              \* per thread: the statement it is at
    loc,             \* per thread: the locals of the call it is in
    handles,         \* the KeyEncapsulation / Signature objects
    ctxs,            \* the native contexts (OQS_KEM / OQS_SIG)
    last,            \* the operation that completed last, with what it did
    first_ret,       \* history: the list each accessor returned a thread first
    fillers,         \* history: the threads that ran each fill loop
    crashed          \* the process died (null dereference)

vars == <<header, family, supported, sup_invoked, enabled, en_invoked,
          pc, loc, handles, ctxs, last, first_ret, fillers, crashed>>

registry == <<supported, sup_invoked, enabled, en_invoked>>

(***************************************************************************)
(* Bounds                                                                  *)
(***************************************************************************)
NumSlots == 2       \* OQS_KEM_alg_count() = OQS_SIG_alg_count()
MaxHandles == 2     \* handle objects alive at once
MaxKeyLen == 2      \* longest caller-supplied secret key
MaxByte == 1        \* bytes are 0..MaxByte

Threads == {1, 2}
Handles == 1..MaxHandles
CtxIds == 1..(MaxHandles + 1)   \* one context a handle, one for a probe
Families == {"KEM", "SIG"}
Headers == {"oqs_cpp.hpp", "oqs_cpp.h"}
Whiches == {"supported", "enabled"}

Range(s) == {s[k] : k \in 1..Len(s)}
NoDuplicates(s) == \A a, b \in 1..Len(s) : s[a] = s[b] => a = b

(***************************************************************************)
(* The native library, as the wrapper calls it                             *)
(***************************************************************************)
KemIdentifiers == <<"Kyber512", "BIKE-L1", "FrodoKEM-640-AES", "HQC-128">>
SigIdentifiers == <<"Dilithium2", "Falcon-512", "SPHINCS+-128f", "MAYO-1">>
Identifiers(fam) == IF fam = "KEM" THEN KemIdentifiers ELSE SigIdentifiers

\* OQS_KEM_alg_count(), OQS_SIG_alg_count()
OQS_alg_count(fam) == NumSlots

\* OQS_KEM_alg_identifier(i), OQS_SIG_alg_identifier(i), i from 0
OQS_alg_identifier(fam, i) == Identifiers(fam)[i + 1]

NativeNames(fam) == {OQS_alg_identifier(fam, i) : i \in 0..(OQS_alg_count(fam) - 1)}

\* the names the tests construct handles with that no table holds
Unsupported(fam) == IF fam = "KEM" THEN "unsupported_kem" ELSE "unsupported_sig"
CallerNames(fam) == NativeNames(fam) \cup {Unsupported(fam)}

\* the build of the native library: every algorithm of the table is compiled
\* in but the one of the last slot
CompiledIn(fam) ==
    {OQS_alg_identifier(fam, i) : i \in 0..(OQS_alg_count(fam) - 2)}

\* OQS_KEM_alg_is_enabled(name), OQS_SIG_alg_is_enabled(name): compiled in or not
OQS_alg_is_enabled(fam, name) == name \in CompiledIn(fam)

\* OQS_KEM_new(name), OQS_SIG_new(name): TRUE stands for a context, FALSE for
\* NULL; NULL for a name that is not compiled in, and when the allocation fails
OQS_new_outcomes(fam, name) ==
    IF name \in CompiledIn(fam) THEN {TRUE, FALSE} ELSE {FALSE}

(***************************************************************************)
(* KEMs / Sigs: the registry                                               *)
(***************************************************************************)
\* max_number_KEMs(), max_number_sigs()
max_number(fam) == OQS_alg_count(fam)

\* get_KEM_name(alg_id), get_sig_name(alg_id) for alg_id < max_number
get_name(fam, alg_id) == OQS_alg_identifier(fam, alg_id)

\* is_KEM_enabled(name), is_sig_enabled(name): the answers a call can give.
\* oqs_cpp.hpp asks OQS_*_alg_is_enabled; oqs_cpp.h tries OQS_*_new and frees
\* the context it got.
is_enabled_answers(fam, name) ==
    IF header = "oqs_cpp.hpp"
    THEN {OQS_alg_is_enabled(fam, name)}
    ELSE OQS_new_outcomes(fam, name)

\* the for loop of get_supported_*() from slot i on, run by one thread alone
RECURSIVE FillSupported(_, _, _)
FillSupported(list, fam, i) ==
    IF i < max_number(fam)
    THEN FillSupported(Append(list, get_name(fam, i)), fam, i + 1)
    ELSE list

\* the list get_supported_*() returns when one thread alone calls it
SupportedAfter(fam) ==
    IF sup_invoked[fam] THEN supported[fam]
    ELSE FillSupported(supported[fam], fam, 0)

\* the for loop of get_enabled_*() over src from element k on, run by one
\* thread alone: every list it can build
RECURSIVE FillEnabled(_, _, _, _)
FillEnabled(list, fam, src, k) ==
    IF k > Len(src) THEN {list}
    ELSE UNION {FillEnabled(IF ans THEN Append(list, src[k]) ELSE list,
                            fam, src, k + 1) :
                   ans \in is_enabled_answers(fam, src[k])}

\* std::find(list.begin(), list.end(), alg_name) != list.end()
is_supported_in(list, name) == name \in Range(list)

EnabledScanFamily_Pasted(fam) == "SIG"
\* the family whose supported list and probe get_enabled_* scans
EnabledScanFamily(fam) == fam

ThrowFor_Swapped(found) ==
    IF found THEN "MechanismNotSupportedError" ELSE "MechanismNotEnabledError"
\* the constructor's throw once the enabled probe said no
ThrowFor(found) ==
    IF found THEN "MechanismNotEnabledError" ELSE "MechanismNotSupportedError"

(***************************************************************************)
(* Records                                                                 *)
(***************************************************************************)
NoDetails ==
    [name |-> "", length_public_key |-> 0, length_secret_key |-> 0,
     length_ciphertext |-> 0, length_shared_secret |-> 0,
     max_length_signature |-> 0]

\* a std::vector<byte>: its buffer (capacity bytes) and its size
NoVec == [buf |-> <<>>, size |-> 0]

NoHandle == [live |-> FALSE, fam |-> "KEM", kem |-> 0, sk |-> NoVec,
             moved |-> FALSE, details |-> NoDetails]

NoCtx == [live |-> FALSE, fam |-> "KEM", name |-> "", refs |-> 0,
          deleter |-> "none"]

NoLoc == [op |-> "none", fam |-> "KEM", sfam |-> "KEM", name |-> "",
          i |-> 0, n |-> 0]

NoLast ==
    [op |-> "none", fam |-> "KEM", name |-> "", h |-> 0, src |-> 0,
     result |-> "", out |-> <<>>, list |-> <<>>, racing |-> FALSE,
     probe |-> FALSE, steps |-> <<>>, input |-> <<>>, arglen |-> <<>>,
     status |-> "",
     native |-> <<>>, released |-> {}, freed |-> {}, deleted |-> {}]

(***************************************************************************)
(* Native metadata and contexts                                            *)
(***************************************************************************)
SlotOf(fam, name) ==
    CHOOSE i \in 0..(OQS_alg_count(fam) - 1) : OQS_alg_identifier(fam, i) = name

\* the fixed fields of the OQS_KEM / OQS_SIG struct of an algorithm
OQS_metadata(fam, name) ==
    [name |-> name,
     length_public_key |-> 1,
     length_secret_key |-> 1 + (SlotOf(fam, name) % 2),
     length_ciphertext |-> IF fam = "KEM" THEN 1 ELSE 0,
     length_shared_secret |-> IF fam = "KEM" THEN 1 ELSE 0,
     max_length_signature |-> IF fam = "SIG" THEN 2 ELSE 0]

FreeCtxIds == {c \in CtxIds : ~ctxs[c].live}
\* the address the allocator hands out: the free one of the lowest number
NewCtxId == CHOOSE c \in FreeCtxIds : \A d \in FreeCtxIds : c <= d

\* the deleter kem_.reset(...) / sig_.reset(...) installs in the constructor:
\* oqs_cpp.hpp passes the lambda calling OQS_*_free, oqs_cpp.h passes none and
\* std::shared_ptr falls back to delete
ResetDeleter == IF header = "oqs_cpp.hpp" THEN "OQS_free" ELSE "delete"

\* std::shared_ptr: one owner less; the last one runs the deleter
SharedRelease(cs, p) ==
    IF p = 0 THEN cs
    ELSE IF cs[p].refs = 1 THEN [cs EXCEPT ![p] = NoCtx]
    ELSE [cs EXCEPT ![p].refs = @ - 1]

\* the contexts OQS_*_free is called on when p loses an owner
FreedBy(cs, p) ==
    IF p # 0 /\ cs[p].refs <= 1 /\ cs[p].deleter = "OQS_free" THEN {p} ELSE {}

\* the contexts released by operator delete when p loses an owner
DeletedBy(cs, p) ==
    IF p # 0 /\ cs[p].refs <= 1 /\ cs[p].deleter = "delete" THEN {p} ELSE {}

\* std::shared_ptr copy: one owner more
SharedCopy(cs, p) == IF p = 0 THEN cs ELSE [cs EXCEPT ![p].refs = @ + 1]

(***************************************************************************)
(* bytes = std::vector<std::uint8_t>                                       *)
(***************************************************************************)
Bytes == 0..MaxByte
Modulus == MaxByte + 1
Zeros(n) == [k \in 1..n |-> 0]
IsZero(s) == \A k \in 1..Len(s) : s[k] = 0

\* a vector constructed from a byte sequence
VecOf(b) == [buf |-> b, size |-> Len(b)]
VecData(v) == SubSeq(v.buf, 1, v.size)

\* OQS_MEM_cleanse(v.data(), v.size())
OQS_MEM_cleanse(v) ==
    [v EXCEPT !.buf = [k \in 1..Len(v.buf) |-> IF k <= v.size THEN 0 ELSE v.buf[k]]]

\* v.resize(0)
VecResize0(v) == [v EXCEPT !.size = 0]

\* v = data (copy assignment): within the capacity the bytes are copied into
\* the buffer v has, beyond it a new buffer is taken and the old one handed
\* back as it is
VecCopyAssign(v, data) ==
    IF Len(data) <= Len(v.buf)
    THEN [vec |-> [buf |-> [k \in 1..Len(v.buf) |->
                              IF k <= Len(data) THEN data[k] ELSE v.buf[k]],
                   size |-> Len(data)],
          old |-> NoVec]
    ELSE [vec |-> VecOf(data), old |-> v]

\* v = std::move(w) (move assignment): v takes w's buffer and hands its own
\* back as it is
VecMoveAssign(v, w) == [vec |-> w, old |-> v]

\* what a buffer handed back to the allocator looked like
Released(cause, v, cleansed) ==
    IF Len(v.buf) = 0 THEN {}
    ELSE {[cause |-> cause, content |-> v.buf, size |-> v.size,
           cleansed |-> cleansed]}

Destructor_NoCleanse(v) == [vec |-> v, cleansed |-> 0]
\* the body of ~KeyEncapsulation() / ~Signature(): the vector it leaves and
\* the number of bytes it passed to OQS_MEM_cleanse
Destructor(v) ==
    IF v.size # 0
    THEN [vec |-> OQS_MEM_cleanse(v), cleansed |-> v.size]
    ELSE [vec |-> v, cleansed |-> 0]

(***************************************************************************)
(* Handles: construction and destruction                                   *)
(***************************************************************************)
CtxState(cs, p) ==
    IF p = 0 THEN "null" ELSE IF cs[p].live THEN "live" ELSE "released"

\* a call of the native library with context p, as last.native records it
Call(fn, p) == [fn |-> fn, ctx |-> p, st |-> CtxState(ctxs, p)]

ProbeCalls_NoFree(ans) ==
    IF ans THEN <<[fn |-> "new", ctx |-> NewCtxId, st |-> "live"]>>
    ELSE <<[fn |-> "new", ctx |-> 0, st |-> "null"]>>

\* the native calls of the enabled probe: oqs_cpp.h news a context and, when
\* it got one, frees it; oqs_cpp.hpp asks OQS_*_alg_is_enabled
ProbeCalls(ans) ==
    IF header = "oqs_cpp.hpp" THEN <<[fn |-> "alg_is_enabled", ctx |-> 0, st |-> "none"]>>
    ELSE IF ans THEN <<[fn |-> "new", ctx |-> NewCtxId, st |-> "live"],
                       [fn |-> "free", ctx |-> NewCtxId, st |-> "live"]>>
    ELSE <<[fn |-> "new", ctx |-> 0, st |-> "null"]>>

\* kem_.reset(OQS_KEM_new(name), ...) and the copy of the metadata: with a
\* context, slot h becomes a handle; with NULL, kem_->method_name reads
\* through a null pointer and the process dies
CtorAlloc(h, fam, name, key, ok) ==
    LET p == IF ok THEN NewCtxId ELSE 0
        done == [NoLast EXCEPT !.op = "construct", !.fam = fam,
                    !.name = name, !.h = h, !.probe = TRUE]
    IN  IF p = 0
        THEN /\ crashed' = TRUE
             /\ UNCHANGED <<handles, ctxs>>
             /\ last' = [done EXCEPT !.result = "SIGSEGV",
                            !.native = ProbeCalls(TRUE) \o
                               <<[fn |-> "new", ctx |-> 0, st |-> "null"]>>]
        ELSE /\ ctxs' = [ctxs EXCEPT ![p] =
                            [live |-> TRUE, fam |-> fam, name |-> name,
                             refs |-> 1, deleter |-> ResetDeleter]]
             /\ handles' = [handles EXCEPT ![h] =
                            [live |-> TRUE, fam |-> fam, kem |-> p,
                             sk |-> VecOf(key), moved |-> FALSE,
                             details |-> OQS_metadata(fam, name)]]
             /\ last' = [done EXCEPT !.result = "ok",
                            !.native = ProbeCalls(TRUE) \o
                               <<[fn |-> "new", ctx |-> p, st |-> "live"]>>]
             /\ UNCHANGED crashed

\* the constructor leaves by exception: the secret_key_ member, already
\* initialised from the argument, is destroyed without the destructor body
CtorThrow(h, fam, name, key, list) ==
    /\ last' = [NoLast EXCEPT !.op = "construct", !.fam = fam,
                   !.name = name, !.h = h, !.probe = FALSE,
                   !.result = ThrowFor(is_supported_in(list, name)),
                   !.native = ProbeCalls(FALSE),
                   !.released = Released("constructor throw", VecOf(key), 0)]
    /\ UNCHANGED <<handles, ctxs, crashed>>

\* KeyEncapsulation(alg_name, secret_key) / Signature(alg_name, secret_key)
Construct(h, fam, name, key) ==
    /\ ~crashed /\ ~handles[h].live
    /\ \E ans \in is_enabled_answers(fam, name) :
          IF ~ans
          THEN /\ supported' = [supported EXCEPT ![fam] = SupportedAfter(fam)]
               /\ sup_invoked' = [sup_invoked EXCEPT ![fam] = TRUE]
               /\ CtorThrow(h, fam, name, key, SupportedAfter(fam))
               /\ UNCHANGED <<enabled, en_invoked>>
          ELSE \E ok \in OQS_new_outcomes(fam, name) :
                  /\ CtorAlloc(h, fam, name, key, ok)
                  /\ UNCHANGED registry
    /\ UNCHANGED <<header, family, pc, loc, first_ret, fillers>>

\* ~KeyEncapsulation() / ~Signature(), then the members' destructors
Destroy(h) ==
    LET o == handles[h]
        d == Destructor(o.sk)
    IN  /\ ~crashed /\ o.live
        /\ handles' = [handles EXCEPT ![h] = NoHandle]
        /\ ctxs' = SharedRelease(ctxs, o.kem)
        /\ last' = [NoLast EXCEPT !.op = "destroy", !.fam = o.fam,
                       !.h = h,
                       !.released = Released("destructor", d.vec, d.cleansed),
                       !.freed = FreedBy(ctxs, o.kem),
                       !.deleted = DeletedBy(ctxs, o.kem)]
        /\ UNCHANGED <<header, family, registry, pc, loc, first_ret,
                       fillers, crashed>>

(***************************************************************************)
(* Threads: the registry accessors, statement by statement                 *)
(***************************************************************************)
Idle(t) == pc[t] = "idle" /\ ~crashed

Goto(t, where, l) ==
    /\ pc' = [pc EXCEPT ![t] = where]
    /\ loc' = [loc EXCEPT ![t] = l]

NoteFiller(t, fam, which) ==
    fillers' = [fillers EXCEPT ![fam][which] = @ \cup {t}]

NoteReturn(fam, which, list) ==
    first_ret' = IF first_ret[fam][which].set THEN first_ret
                 ELSE [first_ret EXCEPT ![fam][which] =
                          [set |-> TRUE, list |-> list]]

\* a thread calls KEMs::get_supported_KEMs() / Sigs::get_supported_sigs()
CallSupported(t, fam) ==
    /\ Idle(t)
    /\ Goto(t, "sup_check", [NoLoc EXCEPT !.op = "sup", !.fam = fam, !.sfam = fam])
    /\ UNCHANGED <<header, family, registry, handles, ctxs, last,
                   first_ret, fillers, crashed>>

\* if (!fnc_already_invoked)
SupCheck(t) ==
    /\ pc[t] = "sup_check" /\ ~crashed
    /\ IF sup_invoked[loc[t].sfam]
       THEN /\ Goto(t, "sup_ret", loc[t])
            /\ UNCHANGED fillers
       ELSE /\ Goto(t, "sup_loop", [loc[t] EXCEPT !.i = 0])
            /\ NoteFiller(t, loc[t].sfam, "supported")
    /\ UNCHANGED <<header, family, registry, handles, ctxs, last,
                   first_ret, crashed>>

\* supported.emplace_back(get_name(i)); ++i
SupLoop(t) ==
    /\ pc[t] = "sup_loop" /\ ~crashed
    /\ loc[t].i < max_number(loc[t].sfam)
    /\ supported' = [supported EXCEPT ![loc[t].sfam] =
                        Append(@, get_name(loc[t].sfam, loc[t].i))]
    /\ Goto(t, "sup_loop", [loc[t] EXCEPT !.i = @ + 1])
    /\ UNCHANGED <<header, family, sup_invoked, enabled, en_invoked,
                   handles, ctxs, last, first_ret, fillers, crashed>>

\* fnc_already_invoked = true
SupFlag(t) ==
    /\ pc[t] = "sup_loop" /\ ~crashed
    /\ loc[t].i >= max_number(loc[t].sfam)
    /\ sup_invoked' = [sup_invoked EXCEPT ![loc[t].sfam] = TRUE]
    /\ Goto(t, "sup_ret", loc[t])
    /\ UNCHANGED <<header, family, supported, enabled, en_invoked,
                   handles, ctxs, last, first_ret, fillers, crashed>>

\* another thread is inside the loop that fills the list
Appending(t, fam, where) ==
    \E u \in Threads \ {t} : pc[u] = where /\ loc[u].sfam = fam

\* return supported; the caller reads the list
SupReturn(t) ==
    /\ pc[t] = "sup_ret" /\ ~crashed /\ loc[t].op = "sup"
    /\ last' = [NoLast EXCEPT !.op = "get_supported",
                   !.fam = loc[t].fam, !.list = supported[loc[t].fam],
                   !.racing = Appending(t, loc[t].fam, "sup_loop")]
    /\ NoteReturn(loc[t].fam, "supported", supported[loc[t].fam])
    /\ Goto(t, "idle", NoLoc)
    /\ UNCHANGED <<header, family, registry, handles, ctxs, fillers,
                   crashed>>

\* a thread calls KEMs::get_enabled_KEMs() / Sigs::get_enabled_sigs()
CallEnabled(t, fam) ==
    /\ Idle(t)
    /\ Goto(t, "en_check", [NoLoc EXCEPT !.op = "en", !.fam = fam,
                               !.sfam = EnabledScanFamily(fam)])
    /\ UNCHANGED <<header, family, registry, handles, ctxs, last,
                   first_ret, fillers, crashed>>

\* if (!fnc_already_invoked), then the call get_supported_*() of the for
EnCheck(t) ==
    /\ pc[t] = "en_check" /\ ~crashed
    /\ IF en_invoked[loc[t].fam]
       THEN /\ Goto(t, "en_ret", loc[t])
            /\ UNCHANGED fillers
       ELSE /\ Goto(t, "sup_check", loc[t])
            /\ NoteFiller(t, loc[t].fam, "enabled")
    /\ UNCHANGED <<header, family, registry, handles, ctxs, last,
                   first_ret, crashed>>

\* get_supported_*() returns into the range-for: begin and end are taken
SupReturnToEnabled(t) ==
    /\ pc[t] = "sup_ret" /\ ~crashed /\ loc[t].op = "en"
    /\ Goto(t, "en_loop", [loc[t] EXCEPT !.i = 0,
                              !.n = Len(supported[loc[t].sfam])])
    /\ UNCHANGED <<header, family, registry, handles, ctxs, last,
                   first_ret, fillers, crashed>>

\* if (is_enabled(elem)) enabled.emplace_back(elem); next elem
EnLoop(t) ==
    /\ pc[t] = "en_loop" /\ ~crashed
    /\ loc[t].i < loc[t].n
    /\ LET elem == supported[loc[t].sfam][loc[t].i + 1]
       IN  \E ans \in is_enabled_answers(loc[t].sfam, elem) :
              enabled' = [enabled EXCEPT ![loc[t].fam] =
                             IF ans THEN Append(@, elem) ELSE @]
    /\ Goto(t, "en_loop", [loc[t] EXCEPT !.i = @ + 1])
    /\ UNCHANGED <<header, family, supported, sup_invoked, en_invoked,
                   handles, ctxs, last, first_ret, fillers, crashed>>

\* fnc_already_invoked = true
EnFlag(t) ==
    /\ pc[t] = "en_loop" /\ ~crashed
    /\ loc[t].i >= loc[t].n
    /\ en_invoked' = [en_invoked EXCEPT ![loc[t].fam] = TRUE]
    /\ Goto(t, "en_ret", loc[t])
    /\ UNCHANGED <<header, family, supported, sup_invoked, enabled,
                   handles, ctxs, last, first_ret, fillers, crashed>>

\* return enabled; the caller reads the list
EnReturn(t) ==
    /\ pc[t] = "en_ret" /\ ~crashed
    /\ last' = [NoLast EXCEPT !.op = "get_enabled",
                   !.fam = loc[t].fam, !.list = enabled[loc[t].fam],
                   !.racing = \E u \in Threads \ {t} :
                                 pc[u] = "en_loop" /\ loc[u].fam = loc[t].fam]
    /\ NoteReturn(loc[t].fam, "enabled", enabled[loc[t].fam])
    /\ Goto(t, "idle", NoLoc)
    /\ UNCHANGED <<header, family, registry, handles, ctxs, fillers,
                   crashed>>

ThreadStep(t) ==
    \/ CallSupported(t, family)
    \/ SupCheck(t) \/ SupLoop(t) \/ SupFlag(t) \/ SupReturn(t)
    \/ CallEnabled(t, family)
    \/ EnCheck(t) \/ SupReturnToEnabled(t) \/ EnLoop(t) \/ EnFlag(t)
    \/ EnReturn(t)

(***************************************************************************)
(* One thread: the registry accessors as whole calls                       *)
(***************************************************************************)
\* KEMs::get_supported_KEMs() / Sigs::get_supported_sigs()
GetSupported(fam) ==
    /\ ~crashed
    /\ supported' = [supported EXCEPT ![fam] = SupportedAfter(fam)]
    /\ sup_invoked' = [sup_invoked EXCEPT ![fam] = TRUE]
    /\ last' = [NoLast EXCEPT !.op = "get_supported", !.fam = fam,
                   !.list = SupportedAfter(fam)]
    /\ UNCHANGED <<header, family, enabled, en_invoked, pc, loc,
                   handles, ctxs, first_ret, fillers, crashed>>

\* KEMs::get_enabled_KEMs() / Sigs::get_enabled_sigs()
GetEnabled(fam) ==
    /\ ~crashed
    /\ IF en_invoked[fam]
       THEN /\ last' = [NoLast EXCEPT !.op = "get_enabled", !.fam = fam,
                           !.list = enabled[fam]]
            /\ UNCHANGED registry
       ELSE LET sfam == EnabledScanFamily(fam)
            IN  \E o \in FillEnabled(enabled[fam], sfam, SupportedAfter(sfam),
                                     1) :
                   /\ supported' = [supported EXCEPT
                                       ![sfam] = SupportedAfter(sfam)]
                   /\ sup_invoked' = [sup_invoked EXCEPT ![sfam] = TRUE]
                   /\ enabled' = [enabled EXCEPT ![fam] = o]
                   /\ en_invoked' = [en_invoked EXCEPT ![fam] = TRUE]
                   /\ last' = [NoLast EXCEPT !.op = "get_enabled",
                                  !.fam = fam, !.list = o]
    /\ UNCHANGED <<header, family, pc, loc, handles, ctxs, first_ret, fillers,
                   crashed>>

\* KEMs::is_KEM_enabled(alg_name) / Sigs::is_sig_enabled(alg_name), called
\* by the program
IsEnabled(fam, name) ==
    /\ ~crashed
    /\ \E ans \in is_enabled_answers(fam, name) :
          last' = [NoLast EXCEPT !.op = "is_enabled", !.fam = fam,
                      !.name = name,
                      !.result = IF ans THEN "true" ELSE "false",
                      !.native = ProbeCalls(ans)]
    /\ UNCHANGED <<header, family, registry, pc, loc, handles, ctxs,
                   first_ret, fillers, crashed>>

GetName_OffByOne(fam, alg_id) ==
    /\ ~crashed
    /\ last' = IF alg_id > max_number(fam)
               THEN [NoLast EXCEPT !.op = "get_name", !.fam = fam,
                        !.arglen = <<alg_id>>,
                        !.result = "std::out_of_range"]
               ELSE [NoLast EXCEPT !.op = "get_name", !.fam = fam,
                        !.arglen = <<alg_id>>, !.result = "ok",
                        !.name = get_name(fam, alg_id)]
    /\ UNCHANGED <<header, family, registry, pc, loc, handles, ctxs,
                   first_ret, fillers, crashed>>

\* KEMs::get_KEM_name(alg_id) / Sigs::get_sig_name(alg_id)
GetName(fam, alg_id) ==
    /\ ~crashed
    /\ last' = IF alg_id >= max_number(fam)
               THEN [NoLast EXCEPT !.op = "get_name", !.fam = fam,
                        !.arglen = <<alg_id>>,
                        !.result = "std::out_of_range"]
               ELSE [NoLast EXCEPT !.op = "get_name", !.fam = fam,
                        !.arglen = <<alg_id>>, !.result = "ok",
                        !.name = get_name(fam, alg_id)]
    /\ UNCHANGED <<header, family, registry, pc, loc, handles, ctxs,
                   first_ret, fillers, crashed>>

\* the ids callers ask the name of: every slot and two past the last
AlgIds == 0..(NumSlots + 1)

(***************************************************************************)
(* One thread: copies and moves of handles                                 *)
(***************************************************************************)
MovedDetails_Cleared(d) == NoDetails
\* what std::move leaves of the details: the strings empty, the lengths as
\* they were
MovedDetails(d) == [d EXCEPT !.name = ""]

MovedFromPtr_Kept(p) == p
\* what std::move leaves of kem_ / sig_ in the handle moved from
MovedFromPtr(p) == 0

MovedFromKey_NoCleanse(v, lsk) == VecResize0(v)
\* the secret key of the handle moved from, after the move: oqs_cpp.hpp
\* cleanses the key it still holds and resizes to 0; oqs_cpp.h, whose vector
\* was moved out, resizes to the key length, cleanses, and resizes to 0
MovedFromKey(v, lsk) ==
    IF header = "oqs_cpp.hpp" THEN VecResize0(OQS_MEM_cleanse(v))
    ELSE VecResize0(OQS_MEM_cleanse(VecOf(Zeros(lsk))))

\* the secret key the target of a move ends with, and the buffer it hands
\* back: oqs_cpp.hpp copy-assigns, oqs_cpp.h move-assigns
MovedToKey(v, w) ==
    IF header = "oqs_cpp.hpp" THEN VecCopyAssign(v, VecData(w))
    ELSE VecMoveAssign(v, w)

\* the handle moved from, statement by statement of the move constructor /
\* move assignment: whether kem_ / sig_ has been moved out of it, and its
\* secret key, before the first statement and after each one
MoveSteps(r) ==
    LET at(m, v) == [moved |-> m, sk |-> v]
        lsk == r.details.length_secret_key
    IN  IF header = "oqs_cpp.hpp"
        THEN << at(FALSE, r.sk),
                at(TRUE, r.sk),                              \* kem_ moved
                at(TRUE, r.sk),                              \* details moved
                at(TRUE, r.sk),                              \* key copied
                at(TRUE, OQS_MEM_cleanse(r.sk)),             \* cleanse
                at(TRUE, VecResize0(OQS_MEM_cleanse(r.sk))) >>  \* resize(0)
        ELSE << at(FALSE, r.sk),
                at(FALSE, r.sk),                             \* alg_name_ moved
                at(TRUE, r.sk),                              \* kem_ moved
                at(TRUE, NoVec),                             \* key moved
                at(TRUE, NoVec),                             \* details moved
                at(TRUE, VecOf(Zeros(lsk))),                 \* resize(len)
                at(TRUE, OQS_MEM_cleanse(VecOf(Zeros(lsk)))),   \* cleanse
                at(TRUE, VecResize0(OQS_MEM_cleanse(VecOf(Zeros(lsk))))) >>

Quiet == UNCHANGED <<header, family, registry, pc, loc, first_ret,
                     fillers, crashed>>

\* KeyEncapsulation(const KeyEncapsulation&) = default, and Signature's
CopyConstruct(h, g) ==
    LET r == handles[g]
    IN  /\ ~crashed /\ ~handles[h].live /\ r.live
        /\ handles' = [handles EXCEPT ![h] =
                          [r EXCEPT !.sk = VecOf(VecData(r.sk))]]
        /\ ctxs' = SharedCopy(ctxs, r.kem)
        /\ last' = [NoLast EXCEPT !.op = "copy_construct", !.fam = r.fam,
                       !.h = h, !.src = g]
        /\ Quiet

\* operator=(const KeyEncapsulation&) = default, and Signature's
CopyAssign(h, g) ==
    LET o == handles[h]
        r == handles[g]
        k == VecCopyAssign(o.sk, VecData(r.sk))
        shared == SharedCopy(ctxs, r.kem)
    IN  /\ ~crashed /\ h # g /\ o.live /\ r.live /\ o.fam = r.fam
        /\ handles' = [handles EXCEPT ![h] = [r EXCEPT !.sk = k.vec]]
        /\ ctxs' = SharedRelease(shared, o.kem)
        /\ last' = [NoLast EXCEPT !.op = "copy_assign", !.fam = r.fam,
                       !.h = h, !.src = g,
                       !.released = Released("copy assignment", k.old, 0),
                       !.freed = FreedBy(shared, o.kem),
                       !.deleted = DeletedBy(shared, o.kem)]
        /\ Quiet

\* KeyEncapsulation(KeyEncapsulation&&), and Signature's
MoveConstruct(h, g) ==
    LET r == handles[g]
        k == MovedToKey(NoVec, r.sk)
    IN  /\ ~crashed /\ ~handles[h].live /\ r.live
        /\ handles' = [handles EXCEPT
              ![h] = [r EXCEPT !.sk = k.vec],
              ![g] = [r EXCEPT !.kem = MovedFromPtr(r.kem), !.moved = TRUE,
                         !.details = MovedDetails(r.details),
                         !.sk = MovedFromKey(r.sk,
                                   r.details.length_secret_key)]]
        /\ last' = [NoLast EXCEPT !.op = "move_construct", !.fam = r.fam,
                       !.h = h, !.src = g, !.steps = MoveSteps(r)]
        /\ UNCHANGED ctxs
        /\ Quiet

\* operator=(KeyEncapsulation&&), and Signature's
MoveAssign(h, g) ==
    LET o == handles[h]
        r == handles[g]
        k == MovedToKey(o.sk, r.sk)
    IN  /\ ~crashed /\ h # g /\ o.live /\ r.live /\ o.fam = r.fam
        /\ handles' = [handles EXCEPT
              ![h] = [r EXCEPT !.sk = k.vec],
              ![g] = [r EXCEPT !.kem = MovedFromPtr(r.kem), !.moved = TRUE,
                         !.details = MovedDetails(r.details),
                         !.sk = MovedFromKey(r.sk,
                                   r.details.length_secret_key)]]
        /\ ctxs' = SharedRelease(ctxs, o.kem)
        /\ last' = [NoLast EXCEPT !.op = "move_assign", !.fam = r.fam,
                       !.h = h, !.src = g, !.steps = MoveSteps(r),
                       !.released = Released("move assignment", k.old, 0),
                       !.freed = FreedBy(ctxs, o.kem),
                       !.deleted = DeletedBy(ctxs, o.kem)]
        /\ Quiet

(***************************************************************************)
(* One thread: the operations of a handle                                  *)
(***************************************************************************)
\* a key of n bytes made from the byte b
KeyOf(b, n) == [k \in 1..n |-> b]

\* OQS_KEM_keypair / OQS_SIG_keypair on context p: success with a key, or
\* failure having written nothing or a key; failure at once for NULL
OQS_keypair(p) ==
    IF p = 0 THEN {[ok |-> FALSE, kid |-> 0]}
    ELSE {[ok |-> TRUE, kid |-> b] : b \in 1..MaxByte}
         \cup {[ok |-> FALSE, kid |-> b] : b \in Bytes}

\* OQS_KEM_encaps on context p
OQS_KEM_encaps(p, pk) ==
    IF p = 0 THEN {[ok |-> FALSE, ct |-> <<>>, ss |-> <<>>]}
    ELSE {[ok |-> TRUE, ct |-> <<(pk[1] + r) % Modulus>>, ss |-> <<r>>] :
             r \in Bytes}

\* OQS_KEM_decaps on context p
OQS_KEM_decaps(p, ct, sk) ==
    IF p = 0 THEN [ok |-> FALSE, ss |-> <<>>]
    ELSE [ok |-> TRUE, ss |-> <<(ct[1] + Modulus - sk[1]) % Modulus>>]

\* OQS_SIG_sign on context p: the bytes written and their number
OQS_SIG_sign(p, m, sk) ==
    IF p = 0 THEN [ok |-> FALSE, sig |-> <<>>, len_sig |-> 0]
    ELSE [ok |-> TRUE, sig |-> <<(m + sk[1]) % Modulus>>, len_sig |-> 1]

\* OQS_SIG_verify on context p
OQS_SIG_verify(p, m, sig, pk) ==
    /\ p # 0
    /\ Len(sig) = 1
    /\ sig[1] = (m + pk[1]) % Modulus

Messages == Bytes
\* the inputs callers pass: of the length the algorithm wants, in every byte,
\* and of the longest length
PublicKeys == {KeyOf(b, 1) : b \in Bytes} \cup {Zeros(MaxKeyLen)}
Ciphertexts == {KeyOf(b, 1) : b \in Bytes} \cup {Zeros(MaxKeyLen)}
SignatureInputs == {KeyOf(b, 1) : b \in Bytes} \cup {Zeros(MaxKeyLen + 1)}
\* the arguments callers pass to verify: every message with every signature
\* and public key of one byte, and a signature or a public key that is too
\* long with the others of one byte
VerifyArgs ==
    {a \in Messages \X SignatureInputs \X PublicKeys :
        \/ Len(a[2]) = 1 /\ Len(a[3]) = 1
        \/ a[1] = 0 /\ IsZero(a[2]) /\ IsZero(a[3])
           /\ (Len(a[2]) = 1 \/ Len(a[3]) = 1)}

\* the OQS_STATUS a native primitive returned
Status(ok) == IF ok THEN "OQS_SUCCESS" ELSE "OQS_ERROR"

\* an operation of handle h that leaves every handle as it is: the arguments
\* it was called with, what it returned or threw, and its native call
Returns(h, op, input, result, out, native, status) ==
    /\ last' = [NoLast EXCEPT !.op = op, !.fam = handles[h].fam, !.h = h,
                   !.input = input,
                   !.arglen = [k \in 1..Len(input) |-> Len(input[k])],
                   !.result = result, !.out = out, !.native = native,
                   !.status = status]
    /\ UNCHANGED <<handles, ctxs>>
    /\ Quiet

\* an operation of handle h that throws before it calls the native library
Throws(h, op, input, what) == Returns(h, op, input, what, <<>>, <<>>, "")

\* secret_key_.size() != length_secret_key, the test decap_secret and sign
\* make before they call the native library
SecretKeyLengthOk(o) == o.sk.size = o.details.length_secret_key

IncorrectLength_ShorterOnly(input, len) == Len(input) < len
\* public_key.size() != length_public_key, ciphertext.size() !=
\* length_ciphertext: the test of an argument's length
IncorrectLength(input, len) == Len(input) # len

generate_keypair_KeyNotStored(h) ==
    LET o == handles[h]
    IN  /\ ~crashed /\ o.live
        /\ \E rv \in OQS_keypair(o.kem) :
              /\ handles' = [handles EXCEPT ![h].sk = NoVec]
              /\ last' = [NoLast EXCEPT !.op = "generate_keypair",
                    !.fam = o.fam, !.h = h,
                    !.result = IF rv.ok THEN "ok"
                               ELSE "Can not generate keypair",
                    !.out = IF rv.ok
                            THEN KeyOf(rv.kid, o.details.length_public_key)
                            ELSE <<>>,
                    !.native = <<Call("keypair", o.kem)>>,
                    !.status = Status(rv.ok),
                    !.released = Released("generate_keypair", o.sk, 0)]
        /\ UNCHANGED ctxs
        /\ Quiet

\* generate_keypair()
generate_keypair(h) ==
    LET o == handles[h]
        k == VecMoveAssign(o.sk, VecOf(Zeros(o.details.length_secret_key)))
    IN  /\ ~crashed /\ o.live
        /\ \E rv \in OQS_keypair(o.kem) :
              /\ handles' = [handles EXCEPT ![h].sk =
                    VecOf(KeyOf(rv.kid, o.details.length_secret_key))]
              /\ last' = [NoLast EXCEPT !.op = "generate_keypair",
                    !.fam = o.fam, !.h = h,
                    !.result = IF rv.ok THEN "ok"
                               ELSE "Can not generate keypair",
                    !.out = IF rv.ok
                            THEN KeyOf(rv.kid, o.details.length_public_key)
                            ELSE <<>>,
                    !.native = <<Call("keypair", o.kem)>>,
                    !.status = Status(rv.ok),
                    !.released = Released("generate_keypair", k.old, 0)]
        /\ UNCHANGED ctxs
        /\ Quiet

export_secret_key_Moving(h) ==
    LET o == handles[h]
    IN  /\ ~crashed /\ o.live
        /\ last' = [NoLast EXCEPT !.op = "export_secret_key", !.fam = o.fam,
                       !.h = h, !.result = "ok", !.out = VecData(o.sk)]
        /\ handles' = [handles EXCEPT ![h].sk = NoVec]
        /\ UNCHANGED ctxs
        /\ Quiet

\* export_secret_key()
export_secret_key(h) ==
    /\ ~crashed /\ handles[h].live
    /\ Returns(h, "export_secret_key", <<>>, "ok", VecData(handles[h].sk),
               <<>>, "")

encap_secret_NeedsKey(h, pk) ==
    LET o == handles[h]
    IN  /\ ~crashed /\ o.live /\ o.fam = "KEM"
        /\ IF IncorrectLength(pk, o.details.length_public_key)
           THEN Throws(h, "encap_secret", <<pk>>,
                       "Incorrect public key length")
           ELSE IF ~SecretKeyLengthOk(o)
           THEN Throws(h, "encap_secret", <<pk>>,
                       "Incorrect secret key length")
           ELSE \E rv \in OQS_KEM_encaps(o.kem, pk) :
                   Returns(h, "encap_secret", <<pk>>,
                           IF rv.ok THEN "ok" ELSE "Can not encapsulate secret",
                           IF rv.ok THEN <<rv.ct, rv.ss>> ELSE <<>>,
                           <<Call("encaps", o.kem)>>, Status(rv.ok))

\* encap_secret(public_key)
encap_secret(h, pk) ==
    LET o == handles[h]
    IN  /\ ~crashed /\ o.live /\ o.fam = "KEM"
        /\ IF IncorrectLength(pk, o.details.length_public_key)
           THEN Throws(h, "encap_secret", <<pk>>,
                       "Incorrect public key length")
           ELSE \E rv \in OQS_KEM_encaps(o.kem, pk) :
                   Returns(h, "encap_secret", <<pk>>,
                           IF rv.ok THEN "ok" ELSE "Can not encapsulate secret",
                           IF rv.ok THEN <<rv.ct, rv.ss>> ELSE <<>>,
                           <<Call("encaps", o.kem)>>, Status(rv.ok))

decap_secret_OtherKey(h, ct) ==
    LET o == handles[h]
        rv == OQS_KEM_decaps(o.kem, ct, Zeros(o.sk.size))
    IN  /\ ~crashed /\ o.live /\ o.fam = "KEM"
        /\ IF IncorrectLength(ct, o.details.length_ciphertext)
           THEN Throws(h, "decap_secret", <<ct>>,
                       "Incorrect ciphertext length")
           ELSE IF ~SecretKeyLengthOk(o)
           THEN Throws(h, "decap_secret", <<ct>>,
                       "Incorrect secret key length")
           ELSE Returns(h, "decap_secret", <<ct>>,
                        IF rv.ok THEN "ok" ELSE "Can not decapsulate secret",
                        rv.ss, <<Call("decaps", o.kem)>>, Status(rv.ok))

decap_secret_Unwritten(h, ct) ==
    LET o == handles[h]
        rv == OQS_KEM_decaps(o.kem, ct, VecData(o.sk))
    IN  /\ ~crashed /\ o.live /\ o.fam = "KEM"
        /\ IF IncorrectLength(ct, o.details.length_ciphertext)
           THEN Throws(h, "decap_secret", <<ct>>,
                       "Incorrect ciphertext length")
           ELSE IF ~SecretKeyLengthOk(o)
           THEN Throws(h, "decap_secret", <<ct>>,
                       "Incorrect secret key length")
           ELSE Returns(h, "decap_secret", <<ct>>,
                        IF rv.ok THEN "ok" ELSE "Can not decapsulate secret",
                        IF rv.ok THEN Zeros(o.details.length_shared_secret)
                        ELSE <<>>,
                        <<Call("decaps", o.kem)>>, Status(rv.ok))

\* decap_secret(ciphertext)
decap_secret(h, ct) ==
    LET o == handles[h]
        rv == OQS_KEM_decaps(o.kem, ct, VecData(o.sk))
    IN  /\ ~crashed /\ o.live /\ o.fam = "KEM"
        /\ IF IncorrectLength(ct, o.details.length_ciphertext)
           THEN Throws(h, "decap_secret", <<ct>>,
                       "Incorrect ciphertext length")
           ELSE IF ~SecretKeyLengthOk(o)
           THEN Throws(h, "decap_secret", <<ct>>,
                       "Incorrect secret key length")
           ELSE Returns(h, "decap_secret", <<ct>>,
                        IF rv.ok THEN "ok" ELSE "Can not decapsulate secret",
                        rv.ss, <<Call("decaps", o.kem)>>, Status(rv.ok))

\* a buffer after the native library wrote the bytes w at its start
Written(buf, w) == [k \in 1..Len(buf) |-> IF k <= Len(w) THEN w[k] ELSE buf[k]]

Resized_Not(buf, n) == buf
\* buf.resize(n)
Resized(buf, n) == [k \in 1..n |-> IF k <= Len(buf) THEN buf[k] ELSE 0]

\* sign(message)
sign(h, m) ==
    LET o == handles[h]
        rv == OQS_SIG_sign(o.kem, m, VecData(o.sk))
        signature == Written(Zeros(o.details.max_length_signature), rv.sig)
    IN  /\ ~crashed /\ o.live /\ o.fam = "SIG"
        /\ IF ~SecretKeyLengthOk(o)
           THEN Throws(h, "sign", <<<<m>>>>, "Incorrect secret key length")
           ELSE Returns(h, "sign", <<<<m>>>>,
                        IF rv.ok THEN "ok" ELSE "Can not sign message",
                        IF rv.ok THEN Resized(signature, rv.len_sig)
                        ELSE <<>>,
                        <<Call("sign", o.kem)>>, Status(rv.ok))

verify_Throwing(h, m, sig, pk) ==
    LET o == handles[h]
        args == <<<<0>>, Zeros(Len(sig)), Zeros(Len(pk))>>
        rv == OQS_SIG_verify(o.kem, m, sig, pk)
    IN  /\ ~crashed /\ o.live /\ o.fam = "SIG"
        /\ IF IncorrectLength(pk, o.details.length_public_key)
           THEN Throws(h, "verify", args, "Incorrect public key length")
           ELSE IF /\ header = "oqs_cpp.hpp"
                   /\ Len(sig) > o.details.max_length_signature
           THEN Throws(h, "verify", args, "Incorrect signature size")
           ELSE Returns(h, "verify", args,
                        IF rv THEN "true" ELSE "Can not verify signature",
                        <<>>, <<Call("verify", o.kem)>>, Status(rv))

\* what verify records of its arguments: their lengths
Blank(arg) == Zeros(Len(arg))

VerifyOutcome_FullLengthOnly(o, m, sig, pk) ==
    IF Len(sig) # o.details.max_length_signature
    THEN [result |-> "Incorrect signature size", native |-> <<>>,
          status |-> ""]
    ELSE [result |-> "false", native |-> <<Call("verify", o.kem)>>,
          status |-> "OQS_ERROR"]
\* the body of verify(message, signature, public_key) on the handle o: what
\* it returns or throws, and its native call; oqs_cpp.h has no check of the
\* signature's length
VerifyOutcome(o, m, sig, pk) ==
    LET rv == OQS_SIG_verify(o.kem, m, sig, pk)
        thrown(what) == [result |-> what, native |-> <<>>, status |-> ""]
    IN  IF IncorrectLength(pk, o.details.length_public_key)
        THEN thrown("Incorrect public key length")
        ELSE IF /\ header = "oqs_cpp.hpp"
                /\ Len(sig) > o.details.max_length_signature
        THEN thrown("Incorrect signature size")
        ELSE [result |-> IF rv THEN "true" ELSE "false",
              native |-> <<Call("verify", o.kem)>>, status |-> Status(rv)]

\* verify(message, signature, public_key)
verify(h, m, sig, pk) ==
    LET o == handles[h]
        args == <<<<0>>, Blank(sig), Blank(pk)>>
        v == VerifyOutcome(o, m, sig, pk)
    IN  /\ ~crashed /\ o.live /\ o.fam = "SIG"
        /\ Returns(h, "verify", args, v.result, <<>>, v.native, v.status)

\* the secret keys callers construct handles with
CallerKeys == {KeyOf(b, n) : b \in 1..MaxByte, n \in 0..MaxKeyLen}

Next ==
    \/ GetSupported(family)
    \/ GetEnabled(family)
    \/ \E h \in Handles, name \in CallerNames(family), key \in CallerKeys :
          Construct(h, family, name, key)
    \/ \E h, g \in Handles : CopyConstruct(h, g)
    \/ \E h, g \in Handles : CopyAssign(h, g)
    \/ \E h, g \in Handles : MoveConstruct(h, g)
    \/ \E h, g \in Handles : MoveAssign(h, g)
    \/ \E h \in Handles : Destroy(h)
    \/ \E h \in Handles : generate_keypair(h)
    \/ \E h \in Handles : export_secret_key(h)
    \/ \E h \in Handles, pk \in PublicKeys : encap_secret(h, pk)
    \/ \E h \in Handles, ct \in Ciphertexts : decap_secret(h, ct)
    \/ \E h \in Handles, m \in Messages : sign(h, m)
    \/ \E h \in Handles, a \in VerifyArgs : verify(h, a[1], a[2], a[3])

(***************************************************************************)
(* Initial states                                                          *)
(***************************************************************************)
Init ==
    /\ header \in Headers
    /\ family \in Families
    /\ supported = [fam \in Families |-> <<>>]
    /\ sup_invoked = [fam \in Families |-> FALSE]
    /\ enabled = [fam \in Families |-> <<>>]
    /\ en_invoked = [fam \in Families |-> FALSE]
    /\ pc = [t \in Threads |-> "idle"]
    /\ loc = [t \in Threads |-> NoLoc]
    /\ handles = [h \in Handles |-> NoHandle]
    /\ ctxs = [c \in CtxIds |-> NoCtx]
    /\ last = NoLast
    /\ first_ret = [fam \in Families |->
                      [w \in Whiches |-> [set |-> FALSE, list |-> <<>>]]]
    /\ fillers = [fam \in Families |-> [w \in Whiches |-> {}]]
    /\ crashed = FALSE

\* the threads work with KEMs: Sigs is the same code over statics of its own
InitMT == Init /\ family = "KEM"

NextMT == \E t \in Threads : ThreadStep(t)

SpecMT == InitMT /\ [][NextMT]_vars

Spec == Init /\ [][Next]_vars

\* one thread that works with the registries of both families only
NextReg ==
    \E fam \in Families :
       \/ GetSupported(fam)
       \/ GetEnabled(fam)
       \/ \E name \in CallerNames(fam) : IsEnabled(fam, name)
       \/ \E alg_id \in AlgIds : GetName(fam, alg_id)

SpecReg == Init /\ [][NextReg]_vars
(***************************************************************************)
(* Properties of the registry under threads (SpecMT)                       *)
(***************************************************************************)
\* C3: the loop that appends names to a cached list runs in one thread only,
\* for every family and for the supported as for the enabled list
C3_OneFiller ==
    \A fam \in Families, w \in Whiches : Cardinality(fillers[fam][w]) <= 1

\* C4: every list an accessor hands back is fully populated: a supported list
\* has count() entries and no duplicates, and no list is read while another
\* thread is appending to it
C4_FullyPopulated ==
    /\ last.op = "get_supported" =>
          /\ Len(last.list) = max_number(last.fam)
          /\ NoDuplicates(last.list)
    /\ last.op \in {"get_supported", "get_enabled"} => ~last.racing

\* C5: every name of the enabled list of a family is in the supported list of
\* that family, at every point
C5_EnabledWithinSupported ==
    \A fam \in Families : Range(enabled[fam]) \subseteq Range(supported[fam])

\* an enabled list with names in it has been handed back
C5_Witness ==
    /\ last.op = "get_enabled" /\ last.list # <<>>
    /\ en_invoked[last.fam] /\ last.list = enabled[last.fam]

\* C6: every call of an accessor returns the sequence its first call returned
C6_SameAsFirst ==
    /\ last.op = "get_supported" =>
          last.list = first_ret[last.fam]["supported"].list
    /\ last.op = "get_enabled" =>
          last.list = first_ret[last.fam]["enabled"].list

\* the names a call of the enabled probe can answer true for
CanBeEnabled(fam) ==
    {n \in NativeNames(fam) : TRUE \in is_enabled_answers(fam, n)}

\* the names every call of the enabled probe answers true for
AlwaysEnabled(fam) ==
    {n \in NativeNames(fam) : is_enabled_answers(fam, n) = {TRUE}}

\* C28: the supported list an accessor hands back has count() entries, the
\* i-th being name(i); the enabled list it hands back is a subsequence of that
\* list, in the same relative order, made of names the enabled probe answers
\* true for
C28_ListsInNativeOrder ==
    /\ last.op = "get_supported" =>
          /\ Len(last.list) = max_number(last.fam)
          /\ \A i \in 0..(max_number(last.fam) - 1) :
                last.list[i + 1] = get_name(last.fam, i)
    /\ last.op = "get_enabled" =>
          /\ last.list = SelectSeq(FillSupported(<<>>, last.fam, 0),
                                   LAMBDA n : n \in Range(last.list))
          /\ Range(last.list) \subseteq CanBeEnabled(last.fam)
          /\ AlwaysEnabled(last.fam) \subseteq Range(last.list)

(***************************************************************************)
(* Properties of the handles (Spec)                                        *)
(***************************************************************************)
\* the list get_supported_*() hands back
SupportedList(fam) == FillSupported(<<>>, fam, 0)

\* C1: constructing a handle with a name that is not in the supported list
\* of its family fails with MechanismNotSupportedError, and the handle does
\* not come into existence
C1_NotSupported ==
    (last.op = "construct" /\ ~is_supported_in(SupportedList(last.fam), last.name))
    => /\ last.result = "MechanismNotSupportedError"
       /\ ~handles[last.h].live

\* a construction with a name no table holds has failed
C1_Witness ==
    /\ last.op = "construct" /\ last.name = Unsupported(last.fam)
    /\ last.result = "MechanismNotSupportedError"
    /\ ~handles[last.h].live

\* C2: constructing a handle with a name of the supported list that is not in
\* the enabled list fails with MechanismNotEnabledError, whenever it happens
C2_NotEnabled ==
    (/\ last.op = "construct"
     /\ sup_invoked[last.fam] /\ en_invoked[last.fam]
     /\ last.name \in Range(supported[last.fam])
     /\ last.name \notin Range(enabled[last.fam]))
    => last.result = "MechanismNotEnabledError"

\* C7: every native context is released through OQS_*_free, once, and none
\* outlives the handles that refer to it: no context goes to operator delete,
\* and a live context counts exactly the handles that hold it
C7_FreedOnce ==
    /\ last.deleted = {}
    /\ \A c \in CtxIds : ctxs[c].live =>
          /\ ctxs[c].refs >= 1
          /\ ctxs[c].refs =
                Cardinality({h \in Handles : handles[h].live /\ handles[h].kem = c})

NativePrimitives == {"keypair", "encaps", "decaps", "sign", "verify"}

\* C8 as stated: no native primitive is called with a released or a null
\* context
C8_NeverReleasedOrNull ==
    \A k \in 1..Len(last.native) :
       last.native[k].fn \in NativePrimitives => last.native[k].st = "live"

\* C8 as the code has it: no native primitive is called with a released
\* context; a handle that was moved from calls it with a null context, never
\* with the context moved out, and any other handle with the context it holds
C8_NeverReleased ==
    \A k \in 1..Len(last.native) :
       last.native[k].fn \in NativePrimitives =>
          /\ last.native[k].st \in {"live", "null"}
          /\ last.native[k].st = "null" <=> handles[last.h].moved
          /\ last.native[k].ctx = handles[last.h].kem

\* a handle that was moved from has called a native primitive
C8_Witness ==
    /\ last.op \in {"generate_keypair", "encap_secret", "decap_secret",
                    "sign", "verify"}
    /\ handles[last.h].moved
    /\ Len(last.native) = 1
    /\ last.native[1].fn \in NativePrimitives
    /\ last.native[1].st = "null"

\* C9: no two live handles refer to the same native context
C9_NoSharedContext ==
    \A h, g \in Handles :
       (h # g /\ handles[h].live /\ handles[g].live /\ handles[h].kem # 0)
       => handles[h].kem # handles[g].kem

\* C10: when a handle with a non-empty secret key is destroyed, every byte of
\* the key (the size() bytes at data()) has gone through OQS_MEM_cleanse and is
\* zero when the buffer is handed back
C10_DestructorScrubs ==
    last.op = "destroy" =>
       \A r \in last.released :
          r.size > 0 => /\ r.cleansed = r.size
                        /\ IsZero(SubSeq(r.content, 1, r.size))

\* a handle with a non-empty secret key has been destroyed
C10_Witness ==
    /\ last.op = "destroy"
    /\ \E r \in last.released : r.size > 0 /\ r.cleansed = r.size

Moves == {"move_construct", "move_assign"}

\* C11 as stated: after a move from handle r, r's secret key is empty and the
\* bytes it held are zero, and at no statement inside the move is r already
\* moved from while its key still holds non-zero bytes
C11_NeverMovedFromWithKey ==
    last.op \in Moves =>
       /\ handles[last.src].sk.size = 0
       /\ \A k \in 1..Len(last.steps) :
             last.steps[k].moved => IsZero(VecData(last.steps[k].sk))

\* C11 as the code has it: once the move has returned, r is moved from, its
\* secret key is empty, and the size() bytes of the key it held are zero in
\* the buffer it still owns
C11_MovedFromScrubbed ==
    last.op \in Moves =>
       LET r == handles[last.src]
           held == last.steps[1].sk.size
       IN  /\ r.moved /\ r.sk.size = 0
           /\ r.sk = last.steps[Len(last.steps)].sk
           /\ \A k \in 1..Len(r.sk.buf) : k <= held => r.sk.buf[k] = 0

\* a handle holding a key with non-zero bytes has been moved from
C11_Witness ==
    /\ last.op \in Moves
    /\ ~IsZero(VecData(last.steps[1].sk))
    /\ handles[last.src].moved /\ handles[last.src].sk.size = 0

Replacements == {"generate_keypair", "copy_assign", "move_assign"}

\* C12: when generate_keypair, copy assignment or move assignment replaces the
\* non-empty secret key of a handle, the old key bytes are zero before their
\* storage is released (every size() byte of a buffer handed back has gone
\* through OQS_MEM_cleanse and is zero) or reused (no byte of the old key is
\* left behind the new key in the buffer the handle keeps)
C12_ReplacedKeyScrubbed ==
    last.op \in Replacements =>
       /\ \A r \in last.released :
             r.size > 0 => /\ r.cleansed = r.size
                           /\ IsZero(SubSeq(r.content, 1, r.size))
       /\ LET v == handles[last.h].sk
          IN  \A k \in 1..Len(v.buf) : k > v.size => v.buf[k] = 0

\* C13: when the native keypair primitive reports failure, generate_keypair
\* raises its error and the secret key of the handle does not hold what the
\* primitive wrote: it is empty, or every byte of it is zero
C13_FailedKeypairLeavesNoKey ==
    (/\ last.op = "generate_keypair"
     /\ last.result # "ok")
    => /\ last.result = "Can not generate keypair"
       /\ \/ handles[last.h].sk.size = 0
          \/ IsZero(handles[last.h].sk.buf)

\* C14: the secret key of every handle is empty or has exactly the
\* length details.length_secret_key, whatever key the handle was constructed
\* with
C14_KeyEmptyOrFullLength ==
    \A h \in Handles :
       handles[h].live =>
          \/ handles[h].sk.size = 0
          \/ handles[h].sk.size = handles[h].details.length_secret_key

\* the messages of the std::runtime_error the operations throw
SecretKeyStateError == "Incorrect secret key length"
InputLengthErrors ==
    {"Incorrect public key length", "Incorrect ciphertext length",
     "Incorrect signature size"}
NativeFailureErrors ==
    {"Can not generate keypair", "Can not encapsulate secret",
     "Can not decapsulate secret", "Can not sign message"}

\* C15: on a handle with an empty secret key (constructed without one, no
\* keypair generated, not moved from), encap_secret and verify with inputs of
\* the right lengths call the native library and return its answer, while
\* decap_secret (given a ciphertext of the right length) and sign call nothing
\* and fail with the secret key error, which is none of the input length
\* errors and none of the native failure errors
C15_EmptyKeyOperations ==
    /\ SecretKeyStateError \notin InputLengthErrors \cup NativeFailureErrors
    /\ last.op \in {"encap_secret", "decap_secret", "sign", "verify"} =>
          LET o == handles[last.h]
          IN  (~o.moved /\ o.sk.size = 0) =>
                 /\ (last.op = "encap_secret"
                      /\ last.result \notin InputLengthErrors) =>
                        /\ last.result \in {"ok", "Can not encapsulate secret"}
                        /\ last.native = <<Call("encaps", o.kem)>>
                 /\ (last.op = "verify"
                      /\ last.result \notin InputLengthErrors) =>
                        /\ last.result \in {"true", "false"}
                        /\ last.native = <<Call("verify", o.kem)>>
                 /\ (last.op = "decap_secret"
                      /\ last.result \notin InputLengthErrors) =>
                        /\ last.result = SecretKeyStateError
                        /\ last.native = <<>>
                 /\ last.op = "sign" =>
                        /\ last.result = SecretKeyStateError
                        /\ last.native = <<>>

\* decap_secret or sign has failed on a handle with an empty secret key
C15_Witness ==
    /\ last.op \in {"decap_secret", "sign"}
    /\ last.result = SecretKeyStateError
    /\ ~handles[last.h].moved /\ handles[last.h].sk.size = 0

\* C16: encap_secret with a public key of another length than
\* details.length_public_key, and decap_secret with a ciphertext of another
\* length than details.length_ciphertext, throw the length error, return
\* nothing and call no native primitive; the primitive is only ever called
\* with an argument of exactly the length, never a cut or a padded one
C16_WrongLengthRejected ==
    /\ last.op = "encap_secret" =>
          LET len == handles[last.h].details.length_public_key
          IN  /\ last.arglen[1] # len =>
                    /\ last.result = "Incorrect public key length"
                    /\ last.native = <<>> /\ last.out = <<>>
              /\ last.native # <<>> => Len(last.input[1]) = len
    /\ last.op = "decap_secret" =>
          LET len == handles[last.h].details.length_ciphertext
          IN  /\ last.arglen[1] # len =>
                    /\ last.result = "Incorrect ciphertext length"
                    /\ last.native = <<>> /\ last.out = <<>>
              /\ last.native # <<>> => Len(last.input[1]) = len

\* encap_secret or decap_secret has refused an argument that is too long
C16_Witness ==
    /\ last.op \in {"encap_secret", "decap_secret"}
    /\ last.arglen[1] > handles[last.h].details.length_public_key
    /\ last.result \in {"Incorrect public key length",
                         "Incorrect ciphertext length"}
    /\ last.native = <<>>

\* C17: verify with a public key of another length than
\* details.length_public_key, or with a signature longer than
\* details.max_length_signature, throws an error and calls no native primitive
C17_VerifyRejectsLengths ==
    last.op = "verify" =>
       LET d == handles[last.h].details
       IN  (\/ last.arglen[3] # d.length_public_key
            \/ last.arglen[2] > d.max_length_signature)
           => /\ last.result \in InputLengthErrors
              /\ last.native = <<>>

\* C18: verify with a public key of details.length_public_key bytes and a
\* signature of at most details.max_length_signature bytes throws nothing, and
\* returns false whenever OQS_SIG_verify reports another status than success
C18_RejectedSignatureIsFalse ==
    last.op = "verify" =>
       LET d == handles[last.h].details
       IN  (/\ last.arglen[3] = d.length_public_key
            /\ last.arglen[2] <= d.max_length_signature)
           => /\ last.result \in {"true", "false"}
              /\ last.status = "OQS_ERROR" => last.result = "false"
              /\ last.status = "OQS_SUCCESS" => last.result = "true"

\* a handle holding a live context has verified a signature of admissible
\* lengths that OQS_SIG_verify rejected
C18_Witness ==
    /\ last.op = "verify" /\ last.result = "false"
    /\ last.status = "OQS_ERROR"
    /\ last.arglen[3] = handles[last.h].details.length_public_key
    /\ last.arglen[2] <= handles[last.h].details.max_length_signature
    /\ last.native = <<[fn |-> "verify", ctx |-> handles[last.h].kem,
                        st |-> "live"]>>

\* C19: when sign succeeds, the buffer it returns has the length that
\* OQS_SIG_sign reported, which is at most details.max_length_signature, and
\* holds the first that many bytes the primitive wrote
C19_SignatureTrimmed ==
    (last.op = "sign" /\ last.result = "ok") =>
       LET o == handles[last.h]
           rv == OQS_SIG_sign(o.kem, last.input[1][1], VecData(o.sk))
       IN  /\ Len(last.out) = rv.len_sig
           /\ Len(last.out) <= o.details.max_length_signature
           /\ last.out = SubSeq(rv.sig, 1, rv.len_sig)

\* sign has returned a signature shorter than the longest of the algorithm
C19_Witness ==
    /\ last.op = "sign" /\ last.result = "ok"
    /\ Len(last.out) > 0
    /\ Len(last.out) < handles[last.h].details.max_length_signature

\* the public key generate_keypair returned with the secret key of handle o
PublicKeyOf(o) == KeyOf(VecData(o.sk)[1], o.details.length_public_key)

C21_SignatureVerifies ==
    (last.op = "sign" /\ last.result = "ok") =>
       LET o == handles[last.h]
       IN  \A g \in Handles :
              (/\ handles[g].live /\ ~handles[g].moved
               /\ handles[g].details.name = o.details.name) =>
                 VerifyOutcome(handles[g], last.input[1][1], last.out,
                               PublicKeyOf(o)).result = "true"

\* a handle has signed while a second, separately constructed handle of the
\* algorithm exists that verifies the signature
C21_Witness ==
    /\ last.op = "sign" /\ last.result = "ok"
    /\ \E g \in Handles :
          /\ g # last.h /\ handles[g].live /\ ~handles[g].moved
          /\ handles[g].kem # handles[last.h].kem
          /\ handles[g].details.name = handles[last.h].details.name
          /\ VerifyOutcome(handles[g], last.input[1][1], last.out,
                           PublicKeyOf(handles[last.h])).result = "true"

ConstOperations ==
    {"export_secret_key", "encap_secret", "decap_secret", "sign", "verify"}

\* C23: export_secret_key returns the bytes of the secret key the handle
\* holds, and export_secret_key, encap_secret, decap_secret, sign and verify,
\* whether they return or throw, leave every handle (its secret key, its
\* details, its context pointer) and every native context as they were
C23_ConstOperations ==
    [][last'.op \in ConstOperations =>
          /\ handles' = handles /\ ctxs' = ctxs
          /\ last'.op = "export_secret_key" =>
                last'.out = VecData(handles[last'.h].sk)]_vars

\* export_secret_key has returned a key with bytes in it
C23_Witness ==
    /\ last.op = "export_secret_key" /\ last.out # <<>>
    /\ last.out = VecData(handles[last.h].sk)

\* C26: when a constructor given a non-empty secret key throws
\* MechanismNotSupportedError or MechanismNotEnabledError, the key bytes the
\* handle under construction already stored are zero before their storage is
\* released (every size() byte of the buffer handed back has gone through
\* OQS_MEM_cleanse and is zero)
C26_FailedConstructionScrubs ==
    (/\ last.op = "construct"
     /\ last.result \in {"MechanismNotSupportedError",
                         "MechanismNotEnabledError"})
    => \A r \in last.released :
          r.size > 0 => /\ r.cleansed = r.size
                        /\ IsZero(SubSeq(r.content, 1, r.size))

\* the operations that take the secret key of a handle away or put another
\* in its place
KeyChanges == Replacements \cup Moves \cup {"destroy"}

\* C27: when generate_keypair succeeds, the public key it returns has length
\* details.length_public_key and the secret key of the handle has length
\* details.length_secret_key; a handle whose secret key has that length keeps
\* it until an operation replaces the key, moves from the handle or destroys
\* it, and decap_secret / sign on such a handle never fail with the
\* secret-key-state error
C27_KeyedAfterKeypair ==
    [][/\ (last'.op = "generate_keypair" /\ last'.result = "ok") =>
             /\ Len(last'.out) = handles'[last'.h].details.length_public_key
             /\ SecretKeyLengthOk(handles'[last'.h])
       /\ \A h \in Handles :
             (handles[h].live /\ SecretKeyLengthOk(handles[h])) =>
                /\ (last'.op \in {"decap_secret", "sign"} /\ last'.h = h) =>
                      last'.result # SecretKeyStateError
                /\ ~SecretKeyLengthOk(handles'[h]) =>
                      /\ last'.op \in KeyChanges
                      /\ h \in {last'.h, last'.src}]_vars

\* generate_keypair has succeeded and the handle holds a key of full length
C27_Witness ==
    /\ last.op = "generate_keypair" /\ last.result = "ok"
    /\ Len(last.out) = handles[last.h].details.length_public_key
    /\ handles[last.h].sk.size = handles[last.h].details.length_secret_key
    /\ handles[last.h].sk.size > 0

\* C29 as stated: the details of a handle are the metadata of the native
\* algorithm read at construction, and no operation changes any field of them
\* while the handle exists
C29_DetailsImmutable ==
    [][\A h \in Handles :
          (handles[h].live /\ handles'[h].live) =>
             handles'[h].details = handles[h].details]_vars

\* C29 as the code has it: a handle that was not moved from has the metadata
\* of a native algorithm of its family as its details; the details of a
\* handle change only when it is the target of a copy or move assignment,
\* which gives it the details of the source, or the source of a move, which
\* empties the name and leaves the lengths as they were
C29_DetailsChangeByAssignmentOrMove ==
    [][\A h \in Handles :
          /\ (handles'[h].live /\ ~handles'[h].moved) =>
                \E n \in NativeNames(handles'[h].fam) :
                   handles'[h].details = OQS_metadata(handles'[h].fam, n)
          /\ (/\ handles[h].live /\ handles'[h].live
              /\ handles'[h].details # handles[h].details) =>
                \/ /\ last'.op \in {"copy_assign", "move_assign"}
                   /\ h = last'.h
                   /\ handles'[h].details = handles[last'.src].details
                \/ /\ last'.op \in Moves
                   /\ h = last'.src
                   /\ handles'[h].moved
                   /\ handles'[h].details =
                         [handles[h].details EXCEPT !.name = ""]]_vars

\* a handle has been moved from: its details have lost the name and kept the
\* lengths
C29_Witness ==
    /\ last.op \in Moves
    /\ handles[last.src].live /\ handles[last.src].moved
    /\ handles[last.src].details.name = ""
    /\ handles[last.src].details.length_secret_key > 0
    /\ handles[last.h].details.name # ""

\* C30: every handle whose construction completed holds a native context,
\* and when the native allocation returns NULL although the enabled check
\* passed, the constructor fails with an error: the process does not read the
\* metadata through the null context and no handle comes into existence
C30_NullAllocationFails ==
    /\ \A h \in Handles :
          (handles[h].live /\ ~handles[h].moved) => handles[h].kem # 0
    /\ (/\ last.op = "construct" /\ last.probe
        /\ last.native[Len(last.native)] =
              [fn |-> "new", ctx |-> 0, st |-> "null"])
       => /\ ~crashed
          /\ last.result \notin {"ok", "SIGSEGV"}
          /\ ~handles[last.h].live

C25_NameOfSlot ==
    last.op = "get_name" =>
       LET i == last.arglen[1]
       IN  /\ i >= OQS_alg_count(last.fam) =>
                 last.result = "std::out_of_range" /\ last.name = ""
           /\ i < OQS_alg_count(last.fam) =>
                 /\ last.result = "ok"
                 /\ last.name = OQS_alg_identifier(last.fam, i)

\* get_KEM_name / get_sig_name was asked for the slot just past the last one
C25_Witness ==
    /\ last.op = "get_name" /\ last.arglen[1] = OQS_alg_count(last.fam)
    /\ last.result = "std::out_of_range"
====
